---- MODULE Spec2Model ----
(***************************************************************************)
(* Model of the SPIMEX bulletin ingestion pipeline (src/async.py) and of   *)
(* the table it writes to (src/table_one.py).                              *)
(*                                                                         *)
(* Texts are sequences of one-character strings, so that stripping,        *)
(* searching, slicing and number parsing are computed, not assumed.  The   *)
(* two long fixed phrases (the bulletin title and the marker of the data   *)
(* table) are single symbols of that alphabet.                             *)
(***************************************************************************)
EXTENDS Integers, Sequences, FiniteSets, TLC

VARIABLES
    page_number,   \* get_bulletin_urls: page_number
    data,          \* get_bulletin_urls: data, the accumulated (url, trade_date) pairs
    lpc,           \* get_bulletin_urls: "loop" | "returned" | "raised"
    fetched,       \* history: the listing pages requested so far, in order
    lastScan,      \* history: what the last loop iteration did
    urls,          \* main: urls
    results,       \* main: the extraction tasks, then the gathered results
    mpc,           \* main: "start" | "gather" | "loop" | "done" | "aborted"
    idx,           \* main: position of the for loop over zip(urls, results)
    store,         \* the rows of table spimex_trading_result, in insertion order
    saved,         \* history: the batches save_to_db has committed, in order
    calls,         \* history: the calls made after the join, in order
    lastSave,      \* history: outcome of the last save_to_db call
    strict,        \* whether the database refuses NaN in a NOT NULL column
    df,            \* process_dataframe: the raw table handed in
    normOut,       \* process_dataframe: what it returned or raised
    content,       \* download_and_parse: the bytes read at line 69
    extOut         \* download_and_parse: what it returned or raised

vars == <<page_number, data, lpc, fetched, lastScan, urls, results, mpc, idx,
          store, saved, calls, lastSave, strict, df, normOut, content, extOut>>

locVars  == <<page_number, data, lpc, fetched, lastScan>>
mainVars == <<urls, results, mpc, idx, calls>>
dbVars   == <<store, saved, lastSave, strict>>
normVars == <<df, normOut>>
extVars  == <<content, extOut>>

-----------------------------------------------------------------------------
(* Program constants and bounds *)

START_YEAR == 2023

\* Bound standing for LIMIT_FILES: the source sets 20, the model scales it
\* down so that the limit is reached within a few listing pages.
MaxFiles == 3

LIMIT_FILES == MaxFiles

\* Longest listing page (number of anchors) the listing source serves.
MaxLinks == 2

-----------------------------------------------------------------------------
(* Text helpers: str.strip, str.replace, "in", slicing *)

Digits == {"0", "1", "2", "3", "4", "5", "6", "7", "8", "9"}

DigitVal(c) ==
    CASE c = "0" -> 0 [] c = "1" -> 1 [] c = "2" -> 2 [] c = "3" -> 3
      [] c = "4" -> 4 [] c = "5" -> 5 [] c = "6" -> 6 [] c = "7" -> 7
      [] c = "8" -> 8 [] c = "9" -> 9

IsSpace(c) == c \in {" ", "\n", "\t"}

RECURSIVE LStrip(_)
LStrip(t) == IF t # <<>> /\ IsSpace(Head(t)) THEN LStrip(Tail(t)) ELSE t

RECURSIVE RStrip(_)
RStrip(t) ==
    IF t # <<>> /\ IsSpace(t[Len(t)]) THEN RStrip(SubSeq(t, 1, Len(t) - 1)) ELSE t

\* str.strip()
Strip(t) == RStrip(LStrip(t))

\* str.replace(c, '')
RemoveChar(t, c) == SelectSeq(t, LAMBDA x : x # c)

\* sub in t
Contains(t, sub) ==
    \E p \in 1..(Len(t) - Len(sub) + 1) : SubSeq(t, p, p + Len(sub) - 1) = sub

\* t[a:b] with 0 <= a <= b, clipped to the text as Python clips a slice
Slice(t, a, b) ==
    LET hi == IF b < Len(t) THEN b ELSE Len(t)
    IN  IF a >= hi THEN <<>> ELSE SubSeq(t, a + 1, hi)

SeventhChar(t) == Slice(t, 6, 7)

\* t[-1:], which is what .str[-1] yields for a non-empty text
LastChar(t) == IF t = <<>> THEN <<>> ELSE <<t[Len(t)]>>

RECURSIVE DigitsToInt(_)
DigitsToInt(t) ==
    IF t = <<>> THEN 0
    ELSE 10 * DigitsToInt(SubSeq(t, 1, Len(t) - 1)) + DigitVal(t[Len(t)])

AllDigits(t) == \A i \in 1..Len(t) : t[i] \in Digits

-----------------------------------------------------------------------------
(* Cells and numbers *)

\* A spreadsheet cell: a string cell (str is TRUE), or a number or blank
\* cell, held as the text astype(str) renders it to ("5.0", "nan").
Str(t)    == [str |-> TRUE, text |-> t]
NonStr(t) == [str |-> FALSE, text |-> t]

BlankCell == NonStr(<<"n", "a", "n">>)

\* A float: kind "num" is m / 10^e, kind "nan" and "inf" are the two
\* non-finite values to_numeric can yield.
Num(m, e) == [kind |-> "num", m |-> m, e |-> e]
NaN == [kind |-> "nan", m |-> 0, e |-> 0]
Inf == [kind |-> "inf", m |-> 0, e |-> 0]

RECURSIVE Pow10(_)
Pow10(e) == IF e = 0 THEN 1 ELSE 10 * Pow10(e - 1)

RECURSIVE Reduce(_)
Reduce(n) ==
    IF n.kind = "num" /\ n.e > 0 /\ n.m % 10 = 0
    THEN Reduce(Num(n.m \div 10, n.e - 1))
    ELSE n

Abs(i) == IF i < 0 THEN -i ELSE i

FirstDot(t) ==
    IF \E i \in 1..Len(t) : t[i] = "."
    THEN CHOOSE i \in 1..Len(t) : t[i] = "." /\ \A j \in 1..(i - 1) : t[j] # "."
    ELSE Len(t) + 1

\* pd.to_numeric(text, errors='coerce') of one text: an optional sign, then
\* digits with at most one decimal point, or inf, or nan; anything else,
\* the empty text included, is coerced to NaN.
Decimal(sign, whole, frac) ==
    IF AllDigits(whole) /\ AllDigits(frac) /\ Len(whole) + Len(frac) > 0
    THEN Reduce(Num(sign * DigitsToInt(whole \o frac), Len(frac)))
    ELSE NaN

Unsigned(sign, body, dot) ==
    IF body = <<"i", "n", "f">> THEN Inf
    ELSE Decimal(sign, SubSeq(body, 1, dot - 1), SubSeq(body, dot + 1, Len(body)))

Signed(sign, body) == Unsigned(sign, body, FirstDot(body))

ToNumeric(t) ==
    IF t # <<>> /\ t[1] \in {"+", "-"}
    THEN Signed(IF t[1] = "-" THEN -1 ELSE 1, Tail(t))
    ELSE Signed(1, t)

\* Lines 101-103: .astype(str).str.replace(',', '').str.strip()
CleanNumberText(cell) == Strip(RemoveChar(cell.text, ","))

IntCastingNaNError == "IntCastingNaNError"

\* Line 105 for one cell: .fillna(0).astype(int).  astype(int) truncates
\* towards zero and raises on a non-finite value.
AsInt(n) ==
    IF n.kind = "nan" THEN [raised |-> FALSE, value |-> 0]
    ELSE IF n.kind = "inf" THEN [raised |-> TRUE, value |-> 0]
    ELSE [raised |-> FALSE,
          value  |-> (IF n.m < 0 THEN -1 ELSE 1) * (Abs(n.m) \div Pow10(n.e))]

ToCount(cell) == AsInt(ToNumeric(CleanNumberText(cell)))

\* Lines 106-107 for one cell
ToFloat(cell) == ToNumeric(CleanNumberText(cell))

\* .notna()
NotNa(n) == n.kind # "nan"

-----------------------------------------------------------------------------
(* process_dataframe *)

\* The six column names of lines 93-94 (transliterated), word by word.
COL_CODE   == <<"Kod", " ", "Instrumenta">>
COL_NAME   == <<"Naimenovanie", " ", "Instrumenta">>
COL_BASIS  == <<"Bazis", " ", "postavki">>
COL_VOLUME == <<"Obem", " ", "Dogovorov", " ", "v", " ", "edinicah", " ", "izmereniya">>
COL_TOTAL  == <<"Obem", " ", "Dogovorov", ",", " ", "rub", ".">>
COL_COUNT  == <<"Kolichestvo", " ", "Dogovorov", ",", " ", "sht", ".">>

expected_columns == <<COL_CODE, COL_NAME, COL_BASIS, COL_VOLUME, COL_TOTAL, COL_COUNT>>

Range(f) == {f[i] : i \in DOMAIN f}

\* The summary marker of line 112 (transliterated), letter by letter.
ITOGO == <<"I", "t", "o", "g", "o">>

\* Line 96
MissingColumns(table) == \E i \in 1..Len(expected_columns) :
                             expected_columns[i] \notin Range(table.columns)

\* Lines 109-112: the four filters, on one row
KeepRow(row) ==
    /\ ToCount(row[COL_COUNT]).value > 0
    /\ NotNa(ToFloat(row[COL_VOLUME]))
    /\ NotNa(ToFloat(row[COL_TOTAL]))
    /\ ~Contains(row[COL_CODE].text, ITOGO)

\* Lines 114-131: the record built from one retained row
Record(row, trade_date, now) ==
    [exchange_product_id   |-> row[COL_CODE],
     exchange_product_name |-> row[COL_NAME],
     oil_id                |-> Slice(row[COL_CODE].text, 0, 4),
     delivery_basis_id     |-> Slice(row[COL_CODE].text, 4, 7),
     delivery_basis_name   |-> row[COL_BASIS],
     delivery_type_id      |-> LastChar(row[COL_CODE].text),
     volume                |-> ToFloat(row[COL_VOLUME]),
     total                 |-> ToFloat(row[COL_TOTAL]),
     count                 |-> ToCount(row[COL_COUNT]).value,
     date                  |-> trade_date,
     created_on            |-> now,
     updated_on            |-> now]

RECURSIVE MapRecords(_, _, _)
MapRecords(rows, trade_date, now) ==
    IF rows = <<>> THEN <<>>
    ELSE <<Record(Head(rows), trade_date, now)>>
             \o MapRecords(Tail(rows), trade_date, now)

NotCalled == [kind |-> "none", rows |-> <<>>]
Absent    == [kind |-> "absent", rows |-> <<>>]
Raised(e) == [kind |-> e, rows |-> <<>>]
Frame(rows) == [kind |-> "ok", rows |-> rows]

\* process_dataframe(df, trade_date), with now the reading of datetime.now()
\* at line 125: Absent for None, Raised when line 105 raises, else the frame.
ProcessDataframe(table, trade_date, now) ==
    IF MissingColumns(table) THEN Absent
    ELSE IF \E i \in 1..Len(table.rows) : ToCount(table.rows[i][COL_COUNT]).raised
    THEN Raised(IntCastingNaNError)
    ELSE Frame(MapRecords(SelectSeq(table.rows, KeepRow), trade_date, now))

-----------------------------------------------------------------------------
(* Listing pages *)

TITLE == "Bulletin-title"     \* the phrase tested at line 46, as one symbol

\* The date texts a listing shows next to a link.
D_2024 == <<"0", "1", ".", "0", "5", ".", "2", "0", "2", "4">>
D_2023 == <<" ", "2", "4", ".", "0", "4", ".", "2", "0", "2", "3", "\n">>
D_2022 == <<"1", "7", ".", "0", "4", ".", "2", "0", "2", "2">>
D_BAD_OLD == <<"3", "1", ".", "0", "2", ".", "2", "0", "2", "2">>
D_BAD_NEW == <<"3", "1", ".", "0", "2", ".", "2", "0", "2", "4">>
D_BLANK == <<" ", " ">>
D_WORDS == <<"1", " ", "m", "a", "y">>

\* An anchor: its text, its href and the text of the span that
\* find_next("span") finds after it (has_span is FALSE when it finds none).
Links ==
    { [text |-> <<TITLE>>, href |-> "/f1.xls", has_span |-> TRUE, span |-> D_2024],
      [text |-> <<" ", TITLE, " ">>, href |-> "/f2.xls", has_span |-> TRUE, span |-> D_2023],
      [text |-> <<TITLE>>, href |-> "/f3.xls", has_span |-> TRUE, span |-> D_2022],
      [text |-> <<TITLE>>, href |-> "/f4.xls", has_span |-> TRUE, span |-> D_BAD_OLD],
      [text |-> <<TITLE>>, href |-> "/f5.xls", has_span |-> TRUE, span |-> D_BAD_NEW],
      [text |-> <<TITLE>>, href |-> "/f6.xls", has_span |-> FALSE, span |-> <<>>],
      [text |-> <<TITLE>>, href |-> "/f7.xls", has_span |-> TRUE, span |-> D_BLANK],
      [text |-> <<TITLE>>, href |-> "/f8.xls", has_span |-> TRUE, span |-> D_WORDS],
      [text |-> <<"m", "a", "p">>, href |-> "/map", has_span |-> TRUE, span |-> D_2024] }

RECURSIVE SeqsUpTo(_, _)
SeqsUpTo(S, n) ==
    IF n = 0 THEN {<<>>}
    ELSE LET shorter == SeqsUpTo(S, n - 1)
         IN  shorter \cup {Append(s, x) : s \in shorter, x \in S}

\* A listing page is the sequence of its anchors, in document order.
Pages == SeqsUpTo(Links, MaxLinks)

\* What a GET of a listing page yields: a page, or a non-success status.
HTTP_ERROR == [ok |-> FALSE, page |-> <<>>]

HttpOk(page) == [ok |-> TRUE, page |-> page]

-----------------------------------------------------------------------------
(* get_bulletin_urls *)

\* re.search(r"(\d{2})\.(\d{2})\.(\d{4})", t): the groups of the leftmost
\* match, or NoMatch for None.
DateShape(t, p) ==
    /\ p + 9 <= Len(t)
    /\ AllDigits(SubSeq(t, p, p + 1))
    /\ t[p + 2] = "."
    /\ AllDigits(SubSeq(t, p + 3, p + 4))
    /\ t[p + 5] = "."
    /\ AllDigits(SubSeq(t, p + 6, p + 9))

NoMatch == [matched |-> FALSE, day |-> 0, month |-> 0, year |-> 0]

Least(S) == CHOOSE q \in S : \A r \in S : q <= r

Groups(t, p) ==
    [matched |-> TRUE,
     day     |-> DigitsToInt(SubSeq(t, p, p + 1)),
     month   |-> DigitsToInt(SubSeq(t, p + 3, p + 4)),
     year    |-> DigitsToInt(SubSeq(t, p + 6, p + 9))]

LeftmostMatch(t, hits) == IF hits = {} THEN NoMatch ELSE Groups(t, Least(hits))

ReSearchDate(t) == LeftmostMatch(t, {p \in 1..Len(t) : DateShape(t, p)})

IsLeap(y) == (y % 4 = 0 /\ y % 100 # 0) \/ y % 400 = 0

DaysInMonth(y, m) ==
    IF m = 2 THEN (IF IsLeap(y) THEN 29 ELSE 28)
    ELSE IF m \in {4, 6, 9, 11} THEN 30 ELSE 31

\* datetime(year, month, day) raises ValueError unless this holds.
ValidDate(g) ==
    /\ g.year \in 1..9999
    /\ g.month \in 1..12
    /\ g.day \in 1..DaysInMonth(g.year, g.month)

\* datetime(int(year), int(month), int(day))
MkDate(g) == [year |-> g.year, month |-> g.month, day |-> g.day]

NoDate == [year |-> 0, month |-> 0, day |-> 0]

\* Lines 46-52 for one anchor: kind is "skip" when one of the four ifs
\* fails, "ValueError" when datetime() raises, else "date" with the trade
\* date.
\* Lines 50-52 on the result g of re.search
DateOfMatch(g) ==
    IF ~g.matched THEN [kind |-> "skip", date |-> NoDate]
    ELSE IF ~ValidDate(g) THEN [kind |-> "ValueError", date |-> NoDate]
    ELSE [kind |-> "date", date |-> MkDate(g)]

LinkDate(link) ==
    IF ~Contains(link.text, <<TITLE>>) THEN [kind |-> "skip", date |-> NoDate]
    ELSE IF ~link.has_span \/ Strip(link.span) = <<>>
    THEN [kind |-> "skip", date |-> NoDate]
    ELSE DateOfMatch(ReSearchDate(Strip(link.span)))

BeforeStartOffByOne(trade_date) == trade_date.year < START_YEAR - 1

BeforeStartInclusive(trade_date) == trade_date.year <= START_YEAR

\* Line 53
BeforeStart(trade_date) == trade_date.year < START_YEAR

\* Line 55
Entry(link, trade_date) == [url |-> link.href, date |-> trade_date]

\* Lines 45-58: the for loop over the anchors of one page, from anchor i.
\* exit is "return" (line 54), "break" (line 58), "raise" (line 52) or
\* "end" (the loop ran out of anchors); at is the anchor that ended it.
RECURSIVE ScanLinks(_, _, _, _)

\* Lines 55-58 with data after the append
Appended(page, i, acc) ==
    IF Len(acc) >= LIMIT_FILES
    THEN [data |-> acc, found_new |-> TRUE, exit |-> "break", at |-> i]
    ELSE ScanLinks(page, i + 1, acc, TRUE)

\* Lines 46-58 for anchor i, d being what lines 46-52 make of it
ScanLink(page, i, acc, found_new, d) ==
    IF d.kind = "skip" THEN ScanLinks(page, i + 1, acc, found_new)
    ELSE IF d.kind = "ValueError"
    THEN [data |-> acc, found_new |-> found_new, exit |-> "raise", at |-> i]
    ELSE IF BeforeStart(d.date)
    THEN [data |-> acc, found_new |-> found_new, exit |-> "return", at |-> i]
    ELSE Appended(page, i, Append(acc, Entry(page[i], d.date)))

ScanLinks(page, i, acc, found_new) ==
    IF i > Len(page)
    THEN [data |-> acc, found_new |-> found_new, exit |-> "end", at |-> i]
    ELSE ScanLink(page, i, acc, found_new, LinkDate(page[i]))

\* One iteration of the while loop (lines 39-62) on the response resp to the
\* GET of line 41, followed by the loop test of line 39: the values of
\* page_number and data after it, and where get_bulletin_urls then stands.
AfterScanNoBreak(s, pn) ==
    [data |-> s.data,
     page_number |-> IF s.exit \in {"raise", "return"} THEN pn ELSE pn + 1,
     lpc |-> IF s.exit = "raise" THEN "raised"
             ELSE IF s.exit = "return" THEN "returned"
             ELSE IF Len(s.data) < LIMIT_FILES THEN "loop"
             ELSE "returned",
     exit |-> s.exit, at |-> s.at, found_new |-> s.found_new]

\* Lines 60-62 and 39 after the scan s of the page
AfterScan(s, pn) ==
    [data |-> s.data,
     page_number |-> IF s.exit \in {"raise", "return"} \/ ~s.found_new
                     THEN pn ELSE pn + 1,
     lpc |-> IF s.exit = "raise" THEN "raised"
             ELSE IF s.exit = "return" \/ ~s.found_new THEN "returned"
             ELSE IF Len(s.data) < LIMIT_FILES THEN "loop"
             ELSE "returned",
     exit |-> s.exit, at |-> s.at, found_new |-> s.found_new]

LocatorIter(resp, pn, acc) ==
    IF ~resp.ok
    THEN [data |-> acc, page_number |-> pn, lpc |-> "raised", exit |-> "http",
          at |-> 0, found_new |-> FALSE]
    ELSE AfterScan(ScanLinks(resp.page, 1, acc, FALSE), pn)

NoScan == [page |-> <<>>, before |-> <<>>, exit |-> "none", at |-> 0,
           found_new |-> FALSE]

LocatorTo(r, resp) ==
    /\ fetched' = Append(fetched, page_number)
    /\ data' = r.data
    /\ page_number' = r.page_number
    /\ lpc' = r.lpc
    /\ lastScan' = [page |-> resp.page, before |-> data, exit |-> r.exit,
                    at |-> r.at, found_new |-> r.found_new]

LocatorStep(resp) ==
    /\ lpc = "loop"
    /\ LocatorTo(LocatorIter(resp, page_number, data), resp)

\* get_bulletin_urls run to its end against a listing source src, which
\* answers the k-th request with src[k].
RECURSIVE LocatorRun(_, _, _, _)

LocatorNext(src, k, r) ==
    IF r.lpc = "loop" THEN LocatorRun(src, k + 1, r.page_number, r.data) ELSE r

LocatorRun(src, k, pn, acc) == LocatorNext(src, k, LocatorIter(src[k], pn, acc))

GetBulletinUrls(src) ==
    IF 0 < LIMIT_FILES THEN LocatorRun(src, 1, 1, <<>>)
    ELSE [data |-> <<>>, page_number |-> 1, lpc |-> "returned", exit |-> "none",
          at |-> 0, found_new |-> FALSE]

-----------------------------------------------------------------------------
(* download_and_parse *)

MARKER == "Unit-marker"      \* the phrase tested at line 82, as one symbol

\* Line 82
IsMarkerRow(row) ==
    \E k \in 1..Len(row) : row[k].str /\ Contains(row[k].text, <<MARKER>>)

\* str.replace(a, b) for one-character a and b
ReplaceChar(t, a, b) == [i \in 1..Len(t) |-> IF t[i] = a THEN b ELSE t[i]]

\* Line 86 for one header cell: astype(str), '\n' to ' ', strip
ColumnName(cell) == Strip(ReplaceChar(cell.text, "\n", " "))

NoTable == [columns |-> <<>>, rows |-> <<>>]

Extracted(table) == [kind |-> "table", table |-> table]
ExtractNone      == [kind |-> "absent", table |-> NoTable]
ExtractRaised(e) == [kind |-> e, table |-> NoTable]

\* Lines 83-87 with the marker in row i of the sheet: the row after it names
\* the columns, the rows below that are the body.  iloc[0] of an empty frame
\* raises IndexError.
\* Position of the first column named cn
ColumnAt(names, cn) ==
    CHOOSE k \in 1..Len(names) : names[k] = cn /\ \A j \in 1..(k - 1) : names[j] # cn

\* Lines 84-87: the frame with the given column names and body rows
Framed(names, body) ==
    Extracted([columns |-> names,
               rows |-> [j \in 1..Len(body) |->
                           [cn \in Range(names) |-> body[j][ColumnAt(names, cn)]]]])

HeaderAndBody(rest) ==
    IF rest = <<>> THEN ExtractRaised("IndexError")
    ELSE Framed([k \in 1..Len(rest[1]) |-> ColumnName(rest[1][k])], Tail(rest))

TableAfter(sheet, i) == HeaderAndBody(SubSeq(sheet, i + 1, Len(sheet)))

\* Lines 80-89: the sheets in stored order, the rows of each top to bottom
RECURSIVE ScanSheets(_, _)

ScanSheet(sheets, n, hits) ==
    IF hits = {} THEN ScanSheets(sheets, n + 1)
    ELSE TableAfter(sheets[n], Least(hits))

ScanSheets(sheets, n) ==
    IF n > Len(sheets) THEN ExtractNone
    ELSE ScanSheet(sheets, n, {i \in 1..Len(sheets[n]) : IsMarkerRow(sheets[n][i])})

OnParseFailureRaises == ExtractRaised("XLRDError")

\* Lines 77-78: what the bare except does with a failure of read_excel
OnParseFailure == ExtractNone

DownloadAndParseSwallowsAll(resp) ==
    IF ~resp.conn \/ ~resp.body.valid THEN OnParseFailure
    ELSE ScanSheets(resp.body.sheets, 1)

\* download_and_parse on the response resp of the GET of line 68: conn is
\* FALSE when the request fails to connect, status is the HTTP status, body
\* the bytes read, valid when xlrd can read them as a workbook.  The status
\* is not looked at.
DownloadAndParse(resp) ==
    IF ~resp.conn THEN ExtractRaised("ClientError")
    ELSE IF ~resp.body.valid THEN OnParseFailure
    ELSE ScanSheets(resp.body.sheets, 1)

-----------------------------------------------------------------------------
(* save_to_db and table spimex_trading_result *)

\* The columns declared nullable=False that a record can lack: a blank
\* cell reaches the record as NaN.
HasNull(record) ==
    \/ record.exchange_product_id = BlankCell
    \/ record.exchange_product_name = BlankCell
    \/ record.delivery_basis_name = BlankCell

AddRaisesOnSameKey(pending, record) ==
    \E i \in 1..Len(pending) :
        /\ pending[i].exchange_product_id = record.exchange_product_id
        /\ pending[i].date = record.date

\* Line 139: session.add(record) puts the record in the session and sends
\* nothing to the database, so it raises no IntegrityError.
AddRaises(pending, record) == FALSE

\* Lines 136-141: the records pending in the session after the loop.
\* session.rollback() (line 141) empties the session of pending records.
RECURSIVE StageAll(_, _)
StageAll(rows, pending) ==
    IF rows = <<>> THEN pending
    ELSE StageAll(Tail(rows),
                  IF AddRaises(pending, Head(rows)) THEN <<>>
                  ELSE Append(pending, Head(rows)))

\* Line 142: commit flushes the pending records as INSERTs in one
\* transaction.  The table has a generated primary key and no unique
\* constraint (table_one.py), so only a NULL in a NOT NULL column can be
\* refused; refuses says whether the backend takes NaN for NULL.  A refused
\* INSERT raises IntegrityError out of commit and the transaction is undone.
Commit(rows, pending, refuses) ==
    IF refuses /\ \E i \in 1..Len(pending) : HasNull(pending[i])
    THEN [kind |-> "IntegrityError", store |-> rows]
    ELSE [kind |-> "returned", store |-> rows \o pending]

\* save_to_db(df) against a table holding rows
SaveToDb(rows, frame, refuses) == Commit(rows, StageAll(frame, <<>>), refuses)

NoSave == [kind |-> "none", batch |-> <<>>, before |-> <<>>, file |-> 0]

-----------------------------------------------------------------------------
(* Raw tables handed to process_dataframe *)

\* Longest data body of a raw table.
MaxRows == 2

CODE_SHORT == Str(<<"A", "1", "0", "0">>)
CODE_FULL  == Str(<<"A", "5", "9", "2", "U", "F", "M", "0", "6", "0", "F">>)
CODE_SUM   == Str(<<"I", "t", "o", "g", "o", ":">>)
CODE_SUM_IN == Str(<<"A", "1", " ", "I", "t", "o", "g", "o">>)

NAME_CELL  == Str(<<"g", "a", "s">>)
BASIS_CELL == Str(<<"U", "f", "a">>)

CodeCells == {CODE_SHORT, CODE_FULL, CODE_SUM, CODE_SUM_IN}

CountCells ==
    { Str(<<" ", "5", " ">>), Str(<<"1", ",", "2">>), NonStr(<<"2", ".", "7">>),
      Str(<<"0">>), Str(<<"0", ".", "5">>), Str(<<"-", "3">>), Str(<<>>),
      Str(<<"-">>), BlankCell, Str(<<"i", "n", "f">>) }

\* (volume, total) pairs: both numeric, either one not.
AmountCells ==
    { <<Str(<<"6", "0">>), NonStr(<<"1", "0", "0", ".", "5">>)>>,
      <<Str(<<"7", "0", ".", "0">>), Str(<<"1", ",", "0", "0", "0">>)>>,
      <<Str(<<"-">>), Str(<<"9">>)>>,
      <<Str(<<"6", "0">>), BlankCell>> }

\* A row of a DataFrame with the given columns: a cell for each column name.
MkRow(columns, code, name, amount, count) ==
    [c \in Range(columns) |->
        IF c = COL_CODE THEN code
        ELSE IF c = COL_NAME THEN name
        ELSE IF c = COL_BASIS THEN BASIS_CELL
        ELSE IF c = COL_VOLUME THEN amount[1]
        ELSE IF c = COL_TOTAL THEN amount[2]
        ELSE IF c = COL_COUNT THEN count
        ELSE BlankCell]

COL_EXTRA == <<"Izm", ".">>

\* Headers: the six columns, the six in another order with a seventh, and
\* two that lack one of the six.
FullHeaders ==
    { expected_columns,
      <<COL_COUNT, COL_EXTRA, COL_CODE, COL_NAME, COL_BASIS, COL_VOLUME, COL_TOTAL>> }

ShortHeaders ==
    { <<COL_CODE, COL_NAME, COL_BASIS, COL_VOLUME, COL_TOTAL>>,
      <<COL_CODE, COL_NAME, COL_VOLUME, COL_TOTAL, COL_COUNT>> }

GOOD_COUNT  == Str(<<" ", "5", " ">>)
GOOD_AMOUNT == <<Str(<<"6", "0">>), NonStr(<<"1", "0", "0", ".", "5">>)>>

\* Rows: every count with a plain code and plain amounts, and every code
\* and every amount pair with a plain count.
RowsOf(columns) ==
    { MkRow(columns, CODE_FULL, NAME_CELL, GOOD_AMOUNT, count) : count \in CountCells }
    \cup { MkRow(columns, code, NAME_CELL, GOOD_AMOUNT, GOOD_COUNT) : code \in CodeCells }
    \cup { MkRow(columns, CODE_SHORT, NAME_CELL, amount, GOOD_COUNT) :
              amount \in AmountCells }

PlainRowsOf(columns) ==
    { MkRow(columns, CODE_FULL, NAME_CELL, GOOD_AMOUNT, count) :
        count \in {GOOD_COUNT, Str(<<"0">>)} }

Framings(columns, rows) ==
    { [columns |-> columns, rows |-> r] : r \in SeqsUpTo(rows, MaxRows) }

Tables ==
    Framings(expected_columns, RowsOf(expected_columns))
    \cup UNION { Framings(h, PlainRowsOf(h)) : h \in FullHeaders \cup ShortHeaders }


TradeDates == { [year |-> 2024, month |-> 5, day |-> 1] }

-----------------------------------------------------------------------------
(* Bulletin files and listing sources of a run *)

HEADER_ROW ==
    << Str(<<"Kod", "\n", "Instrumenta">>),
       Str(<<" ", "Naimenovanie", " ", "Instrumenta", " ">>),
       Str(<<"Bazis", "\n", "postavki">>),
       Str(COL_VOLUME), Str(COL_TOTAL),
       Str(<<"Kolichestvo", " ", "Dogovorov", ",", "\n", "sht", ".">>) >>

SHORT_HEADER_ROW == SubSeq(HEADER_ROW, 1, 5)

MARKER_ROW == << BlankCell, Str(<<MARKER, ":">>), BlankCell, BlankCell, BlankCell, BlankCell >>
TITLE_ROW  == << Str(<<"S", "P", "b">>), BlankCell, BlankCell, BlankCell, BlankCell, BlankCell >>

ROW_A60 == << CODE_FULL, NAME_CELL, BASIS_CELL, GOOD_AMOUNT[1], GOOD_AMOUNT[2], GOOD_COUNT >>
ROW_A70 == << CODE_FULL, NAME_CELL, BASIS_CELL, Str(<<"7", "0">>), GOOD_AMOUNT[2], GOOD_COUNT >>
ROW_SUM == << CODE_SUM, BlankCell, BlankCell, GOOD_AMOUNT[1], GOOD_AMOUNT[2], GOOD_COUNT >>
ROW_NO_NAME == << CODE_SHORT, BlankCell, BASIS_CELL, GOOD_AMOUNT[1], GOOD_AMOUNT[2], GOOD_COUNT >>

ROW_INF == << CODE_FULL, NAME_CELL, BASIS_CELL, GOOD_AMOUNT[1], GOOD_AMOUNT[2], Str(<<"i", "n", "f">>) >>

Workbook(sheets) == [valid |-> TRUE, sheets |-> sheets]

BODY_GOOD    == Workbook(<< <<TITLE_ROW>>,
                            <<TITLE_ROW, MARKER_ROW, HEADER_ROW, ROW_A60, ROW_A70, ROW_SUM>> >>)
BODY_NO_NAME == Workbook(<< <<MARKER_ROW, HEADER_ROW, ROW_A60, ROW_NO_NAME>> >>)
BODY_SHORT   == Workbook(<< <<MARKER_ROW, SHORT_HEADER_ROW, SubSeq(ROW_A60, 1, 5)>> >>)
BODY_INF     == Workbook(<< <<MARKER_ROW, HEADER_ROW, ROW_INF>> >>)
BODY_PLAIN   == Workbook(<< <<TITLE_ROW, HEADER_ROW, ROW_A60>> >>)
BODY_HTML    == [valid |-> FALSE, sheets |-> <<>>]

\* What the GET of a bulletin file can yield.
DownloadResponses ==
    { [conn |-> FALSE, status |-> 0, body |-> BODY_HTML],
      [conn |-> TRUE, status |-> 404, body |-> BODY_HTML],
      [conn |-> TRUE, status |-> 200, body |-> BODY_HTML],
      [conn |-> TRUE, status |-> 200, body |-> BODY_GOOD],
      [conn |-> TRUE, status |-> 200, body |-> BODY_NO_NAME],
      [conn |-> TRUE, status |-> 200, body |-> BODY_SHORT],
      [conn |-> TRUE, status |-> 200, body |-> BODY_INF],
      [conn |-> TRUE, status |-> 200, body |-> BODY_PLAIN] }

LINK_2024 == [text |-> <<TITLE>>, href |-> "/f1.xls", has_span |-> TRUE, span |-> D_2024]
LINK_2023 == [text |-> <<" ", TITLE, " ">>, href |-> "/f2.xls", has_span |-> TRUE, span |-> D_2023]
LINK_2022 == [text |-> <<TITLE>>, href |-> "/f3.xls", has_span |-> TRUE, span |-> D_2022]
LINK_BAD  == [text |-> <<TITLE>>, href |-> "/f5.xls", has_span |-> TRUE, span |-> D_BAD_NEW]

\* The listing sources of a run: the answer to each of the at most
\* LIMIT_FILES requests.
ListingResponses ==
    { HTTP_ERROR, HttpOk(<<>>), HttpOk(<<LINK_2024>>), HttpOk(<<LINK_2024, LINK_2023>>),
      HttpOk(<<LINK_2023, LINK_2022>>), HttpOk(<<LINK_BAD>>) }

Sources == [1..LIMIT_FILES -> ListingResponses]

\* The batches handed to save_to_db on its own: the frames
\* process_dataframe makes of these rows.
BatchRows ==
    { MkRow(expected_columns, CODE_FULL, NAME_CELL, GOOD_AMOUNT, GOOD_COUNT),
      MkRow(expected_columns, CODE_FULL, NAME_CELL,
            <<Str(<<"7", "0">>), GOOD_AMOUNT[2]>>, GOOD_COUNT),
      MkRow(expected_columns, CODE_SHORT, BlankCell, GOOD_AMOUNT, GOOD_COUNT) }

Batches ==
    { ProcessDataframe([columns |-> expected_columns, rows |-> r], d, 1).rows :
        r \in SeqsUpTo(BatchRows, MaxRows), d \in TradeDates }

\* The save_to_db calls made on its own.
MaxCalls == 2

\* Most rows of a sheet of a workbook handed to the scan of lines 80-89.
MaxSheetRows == 3

\* The rows of a sheet: the marker row, a header row and a data row.
SheetRows == {MARKER_ROW, HEADER_ROW, ROW_A60}

Sheets == SeqsUpTo(SheetRows, MaxSheetRows)

\* The contents download_and_parse reads on its own: bytes that are no
\* workbook, and the workbooks of one sheet and of two sheets.
Contents ==
    {BODY_HTML}
    \cup {Workbook(<<s>>) : s \in Sheets}
    \cup {Workbook(<<s, t>>) : s \in Sheets, t \in Sheets}

-----------------------------------------------------------------------------
(* Initial states *)

InitLocator ==
    /\ page_number = 1
    /\ data = <<>>
    /\ lpc = IF 0 < LIMIT_FILES THEN "loop" ELSE "returned"
    /\ fetched = <<>>
    /\ lastScan = NoScan

IdleLocator ==
    /\ page_number = 1
    /\ data = <<>>
    /\ lpc = "idle"
    /\ fetched = <<>>
    /\ lastScan = NoScan

IdleMain == urls = <<>> /\ results = <<>> /\ mpc = "idle" /\ idx = 0 /\ calls = <<>>
IdleDb   == store = <<>> /\ saved = <<>> /\ lastSave = NoSave /\ strict = FALSE
IdleNorm == df = NoTable /\ normOut = NotCalled

NotExtracted == [kind |-> "none", table |-> NoTable]

IdleExtract == content = BODY_HTML /\ extOut = NotExtracted

-----------------------------------------------------------------------------
(* get_bulletin_urls, one loop iteration at a time *)

LocatorFetchFails ==
    /\ LocatorStep(HTTP_ERROR)
    /\ UNCHANGED <<mainVars, dbVars, normVars, extVars>>

LocatorFetchPage ==
    /\ \E page \in Pages : LocatorStep(HttpOk(page))
    /\ UNCHANGED <<mainVars, dbVars, normVars, extVars>>

InitLocatorSpec == InitLocator /\ IdleMain /\ IdleDb /\ IdleNorm /\ IdleExtract

NextLocator == LocatorFetchFails \/ LocatorFetchPage

SpecLocator == InitLocatorSpec /\ [][NextLocator]_vars

\* The pages served to the Locator when its termination is looked at: they
\* differ in how many entries they add and in how their scan ends (a link
\* of 2024 or 2023 is appended, one of 2022 is the cutoff, an unreal date
\* raises, the empty page adds nothing).
TerminationPages == SeqsUpTo({LINK_2024, LINK_2023, LINK_2022, LINK_BAD}, MaxLinks)

LocatorFetchAnyPage ==
    /\ \E page \in TerminationPages : LocatorStep(HttpOk(page))
    /\ UNCHANGED <<mainVars, dbVars, normVars, extVars>>

NextLocatorFair == LocatorFetchFails \/ LocatorFetchAnyPage

\* get_bulletin_urls with every fetch_html call coming back: the event loop
\* runs the one coroutine there is, and the GET answers or fails.
SpecLocatorFair == InitLocatorSpec /\ [][NextLocatorFair]_vars /\ WF_vars(NextLocatorFair)

-----------------------------------------------------------------------------
(* process_dataframe, one call *)

Normalize ==
    /\ normOut.kind = "none"
    /\ \E d \in TradeDates : normOut' = ProcessDataframe(df, d, 1)
    /\ UNCHANGED <<df, locVars, mainVars, dbVars, extVars>>

InitNorm ==
    /\ df \in Tables
    /\ normOut = NotCalled
    /\ IdleLocator /\ IdleMain /\ IdleDb /\ IdleExtract

NextNorm == Normalize

SpecNorm == InitNorm /\ [][NextNorm]_vars

-----------------------------------------------------------------------------
(* download_and_parse, one call *)

Extract ==
    /\ extOut.kind = "none"
    /\ extOut' = DownloadAndParse([conn |-> TRUE, status |-> 200, body |-> content])
    /\ UNCHANGED <<content, locVars, mainVars, dbVars, normVars>>

InitExtract ==
    /\ content \in Contents
    /\ extOut = NotExtracted
    /\ IdleLocator /\ IdleMain /\ IdleDb /\ IdleNorm

NextExtract == Extract

SpecExtract == InitExtract /\ [][NextExtract]_vars

-----------------------------------------------------------------------------
(* save_to_db, one call at a time *)

\* The store and the history after save_to_db(batch), called for file n,
\* ended as r.
Saves(r, batch, n) ==
    /\ store' = r.store
    /\ lastSave' = [kind |-> r.kind, batch |-> batch, before |-> store, file |-> n]
    /\ saved' = IF r.kind = "returned"
                THEN Append(saved, [file |-> n, batch |-> batch])
                ELSE saved
    /\ UNCHANGED strict

Persist ==
    /\ Len(calls) < MaxCalls
    /\ \E batch \in Batches :
         Saves(SaveToDb(store, batch, strict), batch, Len(calls) + 1)
    /\ calls' = Append(calls, [op |-> "save", file |-> Len(calls) + 1])
    /\ UNCHANGED <<urls, results, mpc, idx, locVars, normVars, extVars>>

InitPersist ==
    /\ store = <<>> /\ saved = <<>> /\ lastSave = NoSave
    /\ strict \in BOOLEAN
    /\ IdleLocator /\ IdleMain /\ IdleNorm /\ IdleExtract

NextPersist == Persist

SpecPersist == InitPersist /\ [][NextPersist]_vars

-----------------------------------------------------------------------------
(* main *)

\* A task of line 150 that has not ended: the coroutine
\* download_and_parse(session, url).
Pending(url) == [kind |-> "pending", table |-> NoTable, conn |-> FALSE, status |-> 0,
                 valid |-> FALSE, url |-> url, first |-> FALSE]

TaskRaised(r) == r.kind \notin {"pending", "table", "absent"}

\* Lines 149-150: the Locator runs to its end, then one coroutine per url.
\* An exception out of get_bulletin_urls ends main.
Located(r) ==
    IF r.lpc = "raised"
    THEN /\ mpc' = "aborted"
         /\ UNCHANGED <<urls, results>>
    ELSE /\ mpc' = "gather"
         /\ urls' = r.data
         /\ results' = [i \in 1..Len(r.data) |-> Pending(r.data[i].url)]

MainLocate ==
    /\ mpc = "start"
    /\ \E src \in Sources : Located(GetBulletinUrls(src))
    /\ UNCHANGED <<idx, calls, locVars, dbVars, normVars, extVars>>

\* No task has ended yet
NoneEnded(tasks) == \A j \in 1..Len(tasks) : tasks[j].kind = "pending"

\* What a task ended with, and (history) the response it had, the url it
\* asked for and whether it was the first of the tasks to end
TaskResult(r, resp, task, first) ==
    [kind |-> r.kind, table |-> r.table, conn |-> resp.conn,
     status |-> resp.status, valid |-> resp.body.valid,
     url |-> task.url, first |-> first]

\* One task of the gather runs download_and_parse to its end.  The tasks
\* end in any order.
TaskFinish(i) ==
    /\ mpc = "gather"
    /\ results[i].kind = "pending"
    /\ \E resp \in DownloadResponses :
         results' = [results EXCEPT ![i] = TaskResult(DownloadAndParse(resp), resp,
                                                      results[i], NoneEnded(results))]
    /\ UNCHANGED <<urls, mpc, idx, calls, locVars, dbVars, normVars, extVars>>

\* Line 151: gather passes the first exception of a task on to main, which
\* has no handler.
GatherRaises ==
    /\ mpc = "gather"
    /\ \E i \in 1..Len(results) : TaskRaised(results[i])
    /\ mpc' = "aborted"
    /\ UNCHANGED <<urls, results, idx, calls, locVars, dbVars, normVars, extVars>>

SomeReturned(tasks) ==
    tasks = <<>> \/ \E i \in 1..Len(tasks) : tasks[i].kind \in {"table", "absent"}

\* Line 151: gather is done when every task has returned.
AllReturned(tasks) == \A i \in 1..Len(tasks) : tasks[i].kind \in {"table", "absent"}

GatheredFirstEndedFirst(tasks) ==
    SelectSeq(tasks, LAMBDA t : t.first) \o SelectSeq(tasks, LAMBDA t : ~t.first)

\* Line 151: gather returns the results in the order of the awaitables it
\* was given, whatever the order they ended in.
Gathered(tasks) == tasks

GatherReturns ==
    /\ mpc = "gather"
    /\ AllReturned(results)
    /\ results' = Gathered(results)
    /\ mpc' = IF Len(urls) = 0 THEN "done" ELSE "loop"
    /\ idx' = 1
    /\ UNCHANGED <<urls, calls, locVars, dbVars, normVars, extVars>>

AfterFile == IF idx = Len(urls) THEN "done" ELSE "loop"

\* Line 153: zip(urls, results), the date of the i-th url with the i-th
\* result.
Zip(us, rs) ==
    [i \in 1..(IF Len(us) < Len(rs) THEN Len(us) ELSE Len(rs)) |->
        [date |-> us[i].date, df |-> rs[i]]]

\* A call made for the file at idx (history): the url the table came from
\* and the trade date it is given.
Call(op, pair) == [op |-> op, file |-> idx, url |-> pair.df.url, date |-> pair.date]

\* Line 157 for the frame of the file at idx
SaveFile(frame, pair) ==
    /\ Saves(SaveToDb(store, frame, strict), frame, idx)
    /\ calls' = calls \o <<Call("normalize", pair), Call("save", pair)>>
    /\ mpc' = IF lastSave'.kind = "returned" THEN AfterFile ELSE "aborted"

ProcessedAbsentAborts(processed, pair) ==
    IF processed.kind = "ok" THEN SaveFile(processed.rows, pair)
    ELSE /\ mpc' = "aborted"
         /\ calls' = Append(calls, Call("normalize", pair))
         /\ UNCHANGED dbVars

\* Lines 155-157, processed being what process_dataframe returned or raised
Processed(processed, pair) ==
    IF processed.kind = "ok" THEN SaveFile(processed.rows, pair)
    ELSE /\ mpc' = IF processed.kind = "absent" THEN AfterFile ELSE "aborted"
         /\ calls' = Append(calls, Call("normalize", pair))
         /\ UNCHANGED dbVars

\* Lines 154-157 for one pair of the zip
FilePair(pair) ==
    IF pair.df.kind = "absent"
    THEN /\ mpc' = AfterFile
         /\ UNCHANGED <<calls, dbVars>>
    ELSE Processed(ProcessDataframe(pair.df.table, pair.date, idx), pair)

\* Lines 153-157: one iteration of the for loop, for the file at idx.
MainFile ==
    /\ mpc = "loop"
    /\ idx' = idx + 1
    /\ FilePair(Zip(urls, results)[idx])
    /\ UNCHANGED <<urls, results, locVars, normVars, extVars>>

Init ==
    /\ urls = <<>> /\ results = <<>> /\ mpc = "start" /\ idx = 0 /\ calls = <<>>
    /\ store = <<>> /\ saved = <<>> /\ lastSave = NoSave
    /\ strict \in BOOLEAN
    /\ IdleLocator /\ IdleNorm /\ IdleExtract

Next ==
    \/ MainLocate
    \/ \E i \in 1..Len(results) : TaskFinish(i)
    \/ GatherRaises
    \/ GatherReturns
    \/ MainFile

Spec == Init /\ [][Next]_vars

-----------------------------------------------------------------------------
(* C1 - C3: the Locator *)

\* A qualifying link: a bulletin-titled anchor with a date that parses.
Qualifies(link) == LinkDate(link).kind = "date"

YearOf(link) == LinkDate(link).date.year

\* The (url, date) pairs of the qualifying links among links, in order.
AsEntries(q) == [j \in 1..Len(q) |-> [url |-> q[j].href, date |-> LinkDate(q[j]).date]]

EntriesOf(links) == AsEntries(SelectSeq(links, Qualifies))

\* C1: the sequence get_bulletin_urls returns has at most LIMIT_FILES
\* entries and no entry whose year is earlier than START_YEAR.
C1_AtMostLimitAndNoneBeforeStart ==
    lpc = "returned" =>
        /\ Len(data) <= LIMIT_FILES
        /\ \A i \in 1..Len(data) : data[i].date.year >= START_YEAR

\* The limit is reached on a page whose next link is older than START_YEAR.
C1_Case ==
    /\ lpc = "returned"
    /\ Len(data) = LIMIT_FILES
    /\ lastScan.at < Len(lastScan.page)
    /\ Qualifies(lastScan.page[lastScan.at + 1])
    /\ YearOf(lastScan.page[lastScan.at + 1]) < START_YEAR

\* Link k of the page is the first qualifying link older than START_YEAR
\* and the scan of the page gets to it: no date before it is unreal and the
\* limit is not reached before it.
MeetsCutoff(page, before, k) ==
    /\ Qualifies(page[k]) /\ YearOf(page[k]) < START_YEAR
    /\ \A j \in 1..(k - 1) :
          /\ ~(Qualifies(page[j]) /\ YearOf(page[j]) < START_YEAR)
          /\ LinkDate(page[j]).kind # "ValueError"
    /\ Len(before) + Len(EntriesOf(SubSeq(page, 1, k - 1))) < LIMIT_FILES

\* C2: on meeting the first qualifying link older than START_YEAR the
\* Locator returns the entries accumulated before that link, in listing
\* order, without that link or any later one, and fetches no further page.
C2_CutoffReturnsAtOnce ==
    [][ /\ \A k \in 1..Len(lastScan'.page) :
              MeetsCutoff(lastScan'.page, lastScan'.before, k) =>
                  /\ lpc' = "returned"
                  /\ data' = lastScan'.before \o EntriesOf(SubSeq(lastScan'.page, 1, k - 1))
        /\ (\E k \in 1..Len(lastScan.page) :
                MeetsCutoff(lastScan.page, lastScan.before, k)) => fetched' = fetched
      ]_vars

\* The second page holds an entry and then the cutoff link.
C2_Case ==
    /\ lastScan.exit = "return"
    /\ lastScan.at = 2
    /\ Len(fetched) = 2
    /\ Len(data) = Len(lastScan.before) + 1
    /\ lpc = "returned"

\* After the scan of page n: the Locator goes on to request page n + 1.
FetchesNextPage ==
    /\ lpc = "loop"
    /\ page_number = fetched[Len(fetched)] + 1

\* The scan of the last page ended at a link that reads as a date older
\* than START_YEAR, be it a real calendar date or not.
CutoffEntryMet ==
    \/ lastScan.exit = "return"
    \/ /\ lastScan.exit = "raise"
       /\ ReSearchDate(Strip(lastScan.page[lastScan.at].span)).year < START_YEAR

\* C3: page n + 1 is fetched if and only if page n yielded at least one
\* qualifying link, the count is still below LIMIT_FILES and no cutoff
\* entry was met.
C3_NextPageIffYieldBelowLimitNoCutoff ==
    lastScan.exit \notin {"none", "http"} =>
        ( FetchesNextPage <=> /\ Len(data) > Len(lastScan.before)
                              /\ Len(data) < LIMIT_FILES
                              /\ ~CutoffEntryMet )

\* The same rule on the pages where datetime() does not raise.
C3_HoldsWhenNoDateIsUnreal ==
    lastScan.exit \notin {"none", "http", "raise"} =>
        ( FetchesNextPage <=> /\ Len(data) > Len(lastScan.before)
                              /\ Len(data) < LIMIT_FILES
                              /\ lastScan.exit # "return" )

-----------------------------------------------------------------------------
(* C4, C5, C7: the Persister *)

KeyOf(record) == <<record.exchange_product_id, record.date>>

KeysOf(rows) == {KeyOf(rows[i]) : i \in 1..Len(rows)}

\* C4: persisting a batch that an earlier call has persisted leaves the
\* store with the same trade records per (exchange_product_id, date) and
\* adds no row.
C4_SecondPersistAddsNothing ==
    (/\ lastSave.kind = "returned"
     /\ \E j \in 1..Len(saved) : saved[j].file < lastSave.file
                                  /\ saved[j].batch = lastSave.batch)
        => /\ KeysOf(store) = KeysOf(lastSave.before)
           /\ Len(store) = Len(lastSave.before)

\* The integrity conflict the table can raise: a record with no value for a
\* NOT NULL column, on a database that refuses it.
Conflicts(batch) == strict /\ \E i \in 1..Len(batch) : HasNull(batch[i])

\* C5: an integrity conflict on one record does not make save_to_db fail;
\* the other records of the batch are stored and the commit completes.
C5_ConflictDoesNotFailTheCall ==
    (lastSave.kind # "none" /\ Conflicts(lastSave.batch)) =>
        /\ lastSave.kind = "returned"
        /\ \A i \in 1..Len(lastSave.batch) :
              ~HasNull(lastSave.batch[i]) =>
                  \E k \in (Len(lastSave.before) + 1)..Len(store) :
                      store[k] = lastSave.batch[i]

\* C7: after save_to_db returns normally every record of the batch is in
\* the store, rows sharing code and date included: the store is what it was
\* followed by the batch.
C7_ReturnedMeansAllStored ==
    lastSave.kind = "returned" => store = lastSave.before \o lastSave.batch

\* Two rows of one batch share code and date and differ in volume.
C7_Case ==
    /\ lastSave.kind = "returned"
    /\ Len(lastSave.batch) = 2
    /\ KeyOf(lastSave.batch[1]) = KeyOf(lastSave.batch[2])
    /\ lastSave.batch[1].volume # lastSave.batch[2].volume
    /\ Len(store) >= 2

-----------------------------------------------------------------------------
(* C6, C8, C9: main *)

SaveCalled(j) == \E k \in 1..Len(calls) : calls[k].op = "save" /\ calls[k].file = j

\* C6: a failure of save_to_db for one file does not end the run: every
\* later file with a table and a frame is still normalized and saved.
C6_SaveFailureDoesNotHaltRun ==
    (mpc \in {"done", "aborted"} /\ lastSave.kind \notin {"none", "returned"}) =>
        \A j \in (lastSave.file + 1)..Len(urls) :
            (/\ results[j].kind = "table"
             /\ ProcessDataframe(results[j].table, urls[j].date, j).kind = "ok")
                => SaveCalled(j)

\* C8: a non-success status on a bulletin download raises and ends the
\* run; the file is not skipped as unparseable.
C8_DownloadStatusErrorIsFatal ==
    \A i \in 1..Len(results) :
        (results[i].conn /\ results[i].status # 200) =>
            /\ TaskRaised(results[i])
            /\ mpc \in {"gather", "aborted"}

Unreadable(r) == r.conn /\ ~r.valid

\* C9: download_and_parse returns None, and does not raise, for bytes that
\* are no workbook, and main goes on to the next file.
C9_UnreadableFileIsSkipped ==
    [][ /\ \A i \in 1..Len(results') :
              Unreadable(results'[i]) => results'[i].kind = "absent"
        /\ (mpc = "loop" /\ Unreadable(results[idx])) =>
              /\ mpc' = (IF idx = Len(urls) THEN "done" ELSE "loop")
              /\ idx' = idx + 1
              /\ store' = store
      ]_vars

\* An unreadable file is followed by a file that is saved.
C9_Case ==
    /\ mpc = "done"
    /\ \E i \in 1..Len(results) : \E j \in (i + 1)..Len(results) :
          /\ Unreadable(results[i])
          /\ results[i].status = 200
          /\ \E k \in 1..Len(saved) : saved[k].file = j

-----------------------------------------------------------------------------
(* C10 *)

\* The count a cell stands for: its number cut to an integer, and 0 when
\* the cell has no finite number for a value.
Whole(n) ==
    IF n.kind = "num" THEN (IF n.m < 0 THEN -1 ELSE 1) * (Abs(n.m) \div Pow10(n.e))
    ELSE 0

CountOf(cell) == Whole(ToFloat(cell))

\* The rows the Normalizer is to retain.
Retained(row) ==
    /\ CountOf(row[COL_COUNT]) > 0
    /\ ToFloat(row[COL_VOLUME]).kind # "nan"
    /\ ToFloat(row[COL_TOTAL]).kind # "nan"
    /\ \A p \in 1..(Len(row[COL_CODE].text) - 4) :
           SubSeq(row[COL_CODE].text, p, p + 4) # ITOGO

OutputIs(want) ==
    /\ normOut.kind = "ok"
    /\ Len(normOut.rows) = Len(want)
    /\ \A j \in 1..Len(want) :
          /\ normOut.rows[j].exchange_product_id = want[j][COL_CODE]
          /\ normOut.rows[j].count = CountOf(want[j][COL_COUNT])
          /\ normOut.rows[j].volume = ToFloat(want[j][COL_VOLUME])
          /\ normOut.rows[j].total = ToFloat(want[j][COL_TOTAL])
    /\ \A j \in 1..Len(normOut.rows) :
          /\ normOut.rows[j].count > 0
          /\ normOut.rows[j].volume.kind # "nan"
          /\ normOut.rows[j].total.kind # "nan"

OutputIsRetainedRows == OutputIs(SelectSeq(df.rows, Retained))

HasAllColumns(table) ==
    \A i \in 1..Len(expected_columns) :
        \E k \in 1..Len(table.columns) : table.columns[k] = expected_columns[i]

\* C10: for every raw table that has the six expected columns, the
\* output of process_dataframe is exactly the input rows, in input order,
\* whose count is an integer > 0 (a failed or blank coercion counting as 0),
\* whose volume and total are numbers and whose code does not contain the
\* summary marker; every output record has count > 0, a volume and a total.
C10_NormalizerKeepsExactlyValidRows ==
    (normOut.kind # "none" /\ HasAllColumns(df)) => OutputIsRetainedRows

\* The same statement for the tables none of whose count cells reads as an
\* infinity: on these process_dataframe does return the retained rows.
C10_HoldsForFiniteCounts ==
    (/\ normOut.kind # "none"
     /\ HasAllColumns(df)
     /\ \A i \in 1..Len(df.rows) : ToFloat(df.rows[i][COL_COUNT]).kind # "inf")
        => OutputIsRetainedRows

C10_Case ==
    /\ normOut.kind = "ok"
    /\ Len(df.rows) = 2
    /\ Len(normOut.rows) = 1
    /\ normOut.rows[1].exchange_product_id = df.rows[2][COL_CODE]

-----------------------------------------------------------------------------
(* C14, C16: dates the Locator cannot make a calendar date of *)

\* The anchor carries the bulletin title.
IsBulletinLink(link) == \E p \in 1..Len(link.text) : link.text[p] = TITLE

\* The scan of the page gets to link k: no earlier link ends it.
Reaches(page, before, k) ==
    /\ \A j \in 1..(k - 1) :
          /\ LinkDate(page[j]).kind # "ValueError"
          /\ ~(Qualifies(page[j]) /\ YearOf(page[j]) < START_YEAR)
    /\ Len(before) + Len(EntriesOf(SubSeq(page, 1, k - 1))) < LIMIT_FILES

\* C14: a bulletin link whose date text is "31.02.2022" ends the Locator as
\* a cutoff entry does: it returns normally with exactly the entries
\* collected before that link.
C14_UnrealOldDateIsCutoff ==
    \A k \in 1..Len(lastScan.page) :
        (/\ IsBulletinLink(lastScan.page[k])
         /\ lastScan.page[k].has_span
         /\ lastScan.page[k].span = D_BAD_OLD
         /\ Reaches(lastScan.page, lastScan.before, k))
            => /\ lpc = "returned"
               /\ data = lastScan.before \o EntriesOf(SubSeq(lastScan.page, 1, k - 1))

\* A bulletin link with no date element, a date text that is not
\* DD.MM.YYYY, or digits that are no calendar date.
Unparseable(link) == IsBulletinLink(link) /\ ~Qualifies(link)

Without(page, k) == SubSeq(page, 1, k - 1) \o SubSeq(page, k + 1, Len(page))

SameOutcome(r) ==
    /\ lpc = r.lpc
    /\ data = r.data
    /\ page_number = r.page_number

\* C16: a bulletin link whose date cannot be parsed is skipped: the Locator
\* does not raise, and the scan of the page ends as the scan of the same
\* page without that link does.
C16_UnparseableDateIsSkipped ==
    lastScan.exit \notin {"none", "http"} =>
        \A k \in 1..Len(lastScan.page) :
            Unparseable(lastScan.page[k]) =>
                /\ lpc # "raised"
                /\ SameOutcome(LocatorIter(HttpOk(Without(lastScan.page, k)),
                                           fetched[Len(fetched)], lastScan.before))

\* The same statement for the links that have no date element or whose
\* text holds no DD.MM.YYYY: these the Locator does skip.
C16_HoldsWhenNoDigitsMatch ==
    lastScan.exit \notin {"none", "http", "raise"} =>
        \A k \in 1..Len(lastScan.page) :
            (Unparseable(lastScan.page[k]) /\ LinkDate(lastScan.page[k]).kind = "skip") =>
                SameOutcome(LocatorIter(HttpOk(Without(lastScan.page, k)),
                                        fetched[Len(fetched)], lastScan.before))

-----------------------------------------------------------------------------
(* C18: termination of the Locator *)

\* C18: whatever the listing source serves, get_bulletin_urls requests at
\* most LIMIT_FILES listing pages and comes to an end: every iteration
\* after which the loop goes on has added an entry to data.
C18_LocatorTerminatesWithinLimitPages ==
    /\ [](Len(fetched) <= LIMIT_FILES)
    /\ [](lpc = "loop" => Len(data) >= Len(fetched))
    /\ <>(lpc \in {"returned", "raised"})

\* A source with a new entry on every page: the Locator asks for
\* LIMIT_FILES pages and returns.
C18_Case ==
    /\ lpc = "returned"
    /\ Len(fetched) = LIMIT_FILES
    /\ Len(data) = LIMIT_FILES
    /\ lastScan.exit = "break"

-----------------------------------------------------------------------------
(* C15: the ids cut out of the instrument code *)

Min(a, b) == IF a < b THEN a ELSE b

\* The characters of text at positions from..to, counted from 0, as far as
\* the text has them.
CharsAt(text, from, to) ==
    [k \in 1..(Min(to + 1, Len(text)) - Min(from, Len(text))) |-> text[from + k]]

\* The ids of a record are cut out of its code.
IdsCutFromCode(record) ==
    /\ record.oil_id = CharsAt(record.exchange_product_id.text, 0, 3)
    /\ record.delivery_basis_id = CharsAt(record.exchange_product_id.text, 4, 6)
    /\ record.delivery_type_id =
          CharsAt(record.exchange_product_id.text,
                  Len(record.exchange_product_id.text) - 1,
                  Len(record.exchange_product_id.text) - 1)

A100 == <<"A", "1", "0", "0">>

\* C15: every record process_dataframe returns has for oil id the first 4
\* characters of its code, for delivery basis id the characters at
\* positions 4 to 6 and for delivery type id the last character, cut short
\* or empty when the code is shorter than 7 characters; code "A100" gives
\* "A100", "" and "0".
C15_IdsAreSlicesOfTheCode ==
    normOut.kind = "ok" =>
        \A j \in 1..Len(normOut.rows) :
            /\ IdsCutFromCode(normOut.rows[j])
            /\ normOut.rows[j].exchange_product_id.text = A100 =>
                  /\ normOut.rows[j].oil_id = A100
                  /\ normOut.rows[j].delivery_basis_id = <<>>
                  /\ normOut.rows[j].delivery_type_id = <<"0">>

\* process_dataframe returned a record for code "A100" next to one for a
\* code of eleven characters.
C15_Case ==
    /\ normOut.kind = "ok"
    /\ Len(normOut.rows) = 2
    /\ normOut.rows[1].exchange_product_id.text = A100
    /\ normOut.rows[1].delivery_basis_id = <<>>
    /\ Len(normOut.rows[2].exchange_product_id.text) = 11
    /\ normOut.rows[2].delivery_basis_id = <<"U", "F", "M">>
    /\ normOut.rows[2].delivery_type_id = <<"F">>

-----------------------------------------------------------------------------
(* C11: a table without one of the six columns *)

NormalizeCalledOnly(j) ==
    /\ calls' = Append(calls, [op |-> "normalize", file |-> j,
                               url |-> urls[j].url, date |-> urls[j].date])

\* C11: for a file whose table lacks one of the six expected columns
\* process_dataframe returns None and does not raise, main saves nothing
\* for the file and goes on to the next file.
C11_MissingColumnSkipsTheFile ==
    [][ (/\ mpc = "loop"
         /\ results[idx].kind = "table"
         /\ ~HasAllColumns(results[idx].table))
            => /\ ProcessDataframe(results[idx].table, urls[idx].date, idx).kind = "absent"
               /\ NormalizeCalledOnly(idx)
               /\ store' = store
               /\ saved' = saved
               /\ idx' = idx + 1
               /\ mpc' = (IF idx = Len(urls) THEN "done" ELSE "loop")
      ]_vars

\* A file whose table lacks a column is followed by a file that is saved.
C11_Case ==
    /\ mpc = "done"
    /\ \E i \in 1..Len(results) : \E j \in (i + 1)..Len(results) :
          /\ results[i].kind = "table"
          /\ ~HasAllColumns(results[i].table)
          /\ ~SaveCalled(i)
          /\ \E k \in 1..Len(saved) : saved[k].file = j /\ saved[k].batch # <<>>

-----------------------------------------------------------------------------
(* C12, C13, C19: the tasks and the join *)

\* C12: whatever the order the tasks end in, every call made for a file
\* has the table downloaded from that file's url and that file's trade
\* date; the calls come file by file in listing order, and a save follows
\* at once the process_dataframe call of its own file.
C12_OwnDateInListingOrder ==
    /\ \A k \in 1..Len(calls) :
          /\ calls[k].file \in 1..Len(urls)
          /\ calls[k].url = urls[calls[k].file].url
          /\ calls[k].date = urls[calls[k].file].date
          /\ results[calls[k].file].url = calls[k].url
          /\ calls[k].op = "save" =>
                /\ k > 1
                /\ calls[k - 1].op = "normalize"
                /\ calls[k - 1].file = calls[k].file
    /\ \A k \in 1..Len(calls) : \A l \in (k + 1)..Len(calls) :
          /\ calls[k].file <= calls[l].file
          /\ calls[k].file = calls[l].file =>
                (l = k + 1 /\ calls[k].op = "normalize" /\ calls[l].op = "save")
    /\ \A k \in 1..Len(saved) : \A r \in 1..Len(saved[k].batch) :
          saved[k].batch[r].date = urls[saved[k].file].date

\* The task of the second file ended first; both files are saved, each
\* with its own date.
C12_Case ==
    /\ mpc = "done"
    /\ Len(urls) >= 2
    /\ results[2].first
    /\ urls[1].date # urls[2].date
    /\ Len(saved) >= 2
    /\ saved[1].file = 1 /\ saved[1].batch # <<>>
    /\ saved[1].batch[1].date = urls[1].date
    /\ saved[2].file = 2 /\ saved[2].batch # <<>>
    /\ saved[2].batch[1].date = urls[2].date

\* C13: no process_dataframe or save_to_db call is made, and nothing is
\* stored, while a task of the gather has not ended.
C13_JoinIsABarrier ==
    (calls # <<>> \/ store # <<>> \/ lastSave.kind # "none") =>
        \A i \in 1..Len(results) : results[i].kind # "pending"

\* The task of the first file ended first, and the file was saved once the
\* tasks of the other files had ended as well.
C13_Case ==
    /\ Len(results) >= 2
    /\ results[1].first
    /\ calls # <<>>
    /\ calls[1].file = 1
    /\ SaveCalled(1)
    /\ \A i \in 1..Len(results) : results[i].kind # "pending"

\* The download of task i could not connect.
ConnectionFailed(i) == results[i].kind # "pending" /\ ~results[i].conn

\* C19: when the download of one task fails to connect the task raises,
\* main never gets past the gather, and nothing is normalized or stored
\* for any file of the run.
C19_TaskFailureAbortsBeforeAnySave ==
    (\E i \in 1..Len(results) : ConnectionFailed(i)) =>
        /\ \A i \in 1..Len(results) : ConnectionFailed(i) => TaskRaised(results[i])
        /\ mpc \in {"gather", "aborted"}
        /\ calls = <<>>
        /\ store = <<>>
        /\ saved = <<>>

\* The run is aborted by a failed download after the task of another file
\* had ended with a table that process_dataframe makes a frame of.
C19_Case ==
    /\ mpc = "aborted"
    /\ store = <<>>
    /\ \E i \in 1..Len(results) : \E j \in 1..Len(results) :
          /\ ConnectionFailed(i)
          /\ results[j].kind = "table"
          /\ results[j].first
          /\ ProcessDataframe(results[j].table, urls[j].date, j).kind = "ok"

-----------------------------------------------------------------------------
(* C17, C20: the scan for the marker row *)

\* A cell of the row is a text holding the marker phrase.
HasMarker(row) ==
    \E k \in 1..Len(row) : row[k].str /\ \E p \in 1..Len(row[k].text) : row[k].text[p] = MARKER

\* Row i of sheet n is the first marker row of the workbook, sheets taken
\* in stored order and rows top to bottom.
FirstMarker(sheets, n, i) ==
    /\ HasMarker(sheets[n][i])
    /\ \A j \in 1..(i - 1) : ~HasMarker(sheets[n][j])
    /\ \A m \in 1..(n - 1) : \A j \in 1..Len(sheets[m]) : ~HasMarker(sheets[m][j])

NoMarker(sheets) ==
    \A m \in 1..Len(sheets) : \A j \in 1..Len(sheets[m]) : ~HasMarker(sheets[m][j])

\* Column k is the first of the header's columns with its name.
FirstOfName(header, k) ==
    \A j \in 1..(k - 1) : ColumnName(header[j]) # ColumnName(header[k])

\* The table has the cells of header for column names and the rows of body
\* for rows, cell by cell.
TableIs(table, header, body) ==
    /\ table.columns = [k \in 1..Len(header) |-> ColumnName(header[k])]
    /\ Len(table.rows) = Len(body)
    /\ \A j \in 1..Len(body) : \A k \in 1..Len(header) :
          FirstOfName(header, k) => table.rows[j][ColumnName(header[k])] = body[j][k]

\* The table under the marker at row i of the sheet
TableUnder(out, sheet, i) ==
    /\ out.kind = "table"
    /\ TableIs(out.table, sheet[i + 1], SubSeq(sheet, i + 2, Len(sheet)))

\* C17: for a workbook xlrd can read, download_and_parse returns the table
\* under the first marker row (the next row as header, the rows below it as
\* body, later marker rows and sheets left alone), and returns None if and
\* only if no sheet holds the marker.
C17_TableOfFirstMarkerRow ==
    (extOut.kind # "none" /\ content.valid) =>
        /\ extOut.kind = "absent" <=> NoMarker(content.sheets)
        /\ \A n \in 1..Len(content.sheets) : \A i \in 1..Len(content.sheets[n]) :
              FirstMarker(content.sheets, n, i) => TableUnder(extOut, content.sheets[n], i)

\* The first marker row of the workbook has a row after it.
HeaderFollows(sheets) ==
    \A n \in 1..Len(sheets) : \A i \in 1..Len(sheets[n]) :
        FirstMarker(sheets, n, i) => i < Len(sheets[n])

\* The same statement for the workbooks whose first marker row is not the
\* last row of its sheet: on these download_and_parse does as C17 says.
C17_HoldsWhenHeaderFollows ==
    (extOut.kind # "none" /\ content.valid /\ HeaderFollows(content.sheets)) =>
        /\ extOut.kind = "absent" <=> NoMarker(content.sheets)
        /\ \A n \in 1..Len(content.sheets) : \A i \in 1..Len(content.sheets[n]) :
              FirstMarker(content.sheets, n, i) => TableUnder(extOut, content.sheets[n], i)

\* C20: for a workbook xlrd can read, download_and_parse returns a table or
\* None and does not raise, also when the marker row is the last row of
\* its sheet.
C20_ExtractorNeverRaisesOnWorkbook ==
    (extOut.kind # "none" /\ content.valid) => extOut.kind \in {"table", "absent"}

====
